---- MODULE Spec2Model ----
(***************************************************************************)
(* IamTestHelper (src/IamTestHelper.js): the role-assumption pipeline, the *)
(* installation of the assumed credentials into process.env and the three  *)
(* ways back.  A JavaScript string is a sequence of one-character strings, *)
(* so that includes, endsWith, length and concatenation are computed and   *)
(* not assumed.                                                            *)
(***************************************************************************)
EXTENDS Integers, Sequences, FiniteSets, TLC

VARIABLES
    env,        \* process.env: variable name -> string, or Undefined when unset
    iamRole,    \* the role held by the IAM service: its name and trust policy
    helper,     \* slot -> the IamTestHelper object of that slot and where its calls stand
    trustedRuns, \* history: the principals for which trust negotiation has run to its end
    suite       \* the test block set up by withAssumedRole and where its hooks stand

vars == <<env, iamRole, helper, trustedRuns, suite>>

-----------------------------------------------------------------------------
(* JavaScript values *)

\* undefined: a one-element sequence whose element is no single character, so
\* it differs from every string, the empty string included
Undefined == <<"undefined">>

\* truthiness of a string-or-undefined value: undefined and '' are falsy
Truthy(v) == v # Undefined /\ v # <<>>

\* String.prototype.includes
Includes(str, sub) ==
    \E i \in 0..(Len(str) - Len(sub)) : SubSeq(str, i + 1, i + Len(sub)) = sub

\* String.prototype.endsWith
EndsWith(str, sub) ==
    /\ Len(str) >= Len(sub)
    /\ SubSeq(str, Len(str) - Len(sub) + 1, Len(str)) = sub

\* ${v} in a template literal: undefined is spelled out
TemplateStr(v) == IF v = Undefined THEN <<"u", "n", "d", "e", "f", "i", "n", "e", "d">> ELSE v

\* n copies of the character c
Rep(c, n) == [i \in 1..n |-> c]

-----------------------------------------------------------------------------
(* the ambient credential context *)

StaticCredentialVars == {"AWS_ACCESS_KEY_ID", "AWS_SECRET_ACCESS_KEY", "AWS_SESSION_TOKEN"}

CredentialVars == StaticCredentialVars \cup {"AWS_PROFILE"}

EnvVars ==
    CredentialVars \cup {"AWS_SSO_SESSION_NAME", "AWS_SSO_START_URL", "stage", "region", "service"}

\* delete process.env[v] for every v in names
DeleteEnv(e, names) == [v \in EnvVars |-> IF v \in names THEN Undefined ELSE e[v]]

\* the four fields the constructor copies
CredentialState(e) == [v \in CredentialVars |-> e[v]]

-----------------------------------------------------------------------------
(* bounds of the model *)

\* the longest function name tried; with the other naming inputs at their
\* shortest the base name is 20 characters longer
MaxFnLen == 45

\* how many restore calls are made on one helper
MaxRestores == 2

\* refreshCredentials() calls looked at per helper
MaxRefreshes == 1

\* tests in the block handed to withAssumedRole
NumTests == 2

-----------------------------------------------------------------------------
(* constants of the program *)

RoleNameCap == 64

SettleSeconds == 15

SsoSettleMs == 2000

SsoRetryMs == 3000

LambdaRoleSuffix == <<"-", "l", "a", "m", "b", "d", "a", "R", "o", "l", "e">>

-----------------------------------------------------------------------------
(* role name derivation *)

BaseRoleName(service, stage, lambdaName, envRegion) ==
    TemplateStr(service) \o <<"-">> \o TemplateStr(stage) \o <<"-">>
        \o TemplateStr(lambdaName) \o <<"-">> \o TemplateStr(envRegion)

\* a mistaken cap: the suffix is dropped only from 65 characters of BASE name on
DeriveRoleNameCapOnBase(service, stage, lambdaName, envRegion) ==
    LET baseRoleName == BaseRoleName(service, stage, lambdaName, envRegion)
    IN  IF Len(baseRoleName) > RoleNameCap
        THEN baseRoleName
        ELSE baseRoleName \o LambdaRoleSuffix

DeriveRoleName(service, stage, lambdaName, envRegion) ==
    LET baseRoleName == BaseRoleName(service, stage, lambdaName, envRegion)
        roleName == baseRoleName \o LambdaRoleSuffix
    IN  IF Len(roleName) > RoleNameCap THEN baseRoleName ELSE roleName

-----------------------------------------------------------------------------
(* what the STS and IAM services answer *)

UserArn == <<"a", "r", "n", ":", "a", "w", "s", ":", "i", "a", "m", ":", ":", "1", ":", "u", "s", "e", "r", "/", "d", "e", "v">>

SsoArn == <<"a", "r", "n", ":", "a", "w", "s", ":", "s", "t", "s", ":", ":", "1", ":", "a", "s", "s", "u", "m", "e", "d", "-", "r", "o", "l", "e", "/", "A", "W", "S", "R", "e", "s", "e", "r", "v", "e", "d", "S", "S", "O", "_", "A", "d", "m", "i", "n", "_", "1", "/", "m", "e">>

OtherArn == <<"a", "r", "n", ":", "a", "w", "s", ":", "i", "a", "m", ":", ":", "1", ":", "r", "o", "o", "t">>

AccountId == <<"1">>

\* GetCallerIdentity of the ambient identity: who the caller may turn out to be
CallerIdentities ==
    { [Account |-> AccountId, Arn |-> UserArn],
      [Account |-> AccountId, Arn |-> SsoArn] }

NoError == [name |-> "", message |-> <<>>]

TokenRefreshRequired == [name |-> "TokenRefreshRequired", message |-> <<"r", "e", "f", "r", "e", "s", "h">>]

ExpiredToken == [name |-> "ExpiredToken", message |-> <<"e", "x", "p", "i", "r", "e", "d">>]

SessionTokenDenied ==
    [name |-> "AccessDenied", message |-> <<"C", "a", "n", "n", "o", "t", " ", "c", "a", "l", "l", " ", "G", "e", "t", "S", "e", "s", "s", "i", "o", "n", "T", "o", "k", "e", "n", " ", "w", "i", "t", "h", " ", "s", "e", "s", "s", "i", "o", "n", " ", "c", "r", "e", "d", "e", "n", "t", "i", "a", "l", "s">>]

AccessDenied == [name |-> "AccessDenied", message |-> <<"n", "o", "t", " ", "a", "u", "t", "h", "o", "r", "i", "z", "e", "d">>]

NoSuchEntity == [name |-> "NoSuchEntity", message |-> <<"n", "o", "t", " ", "f", "o", "u", "n", "d">>]

GetCallerIdentityErrors == {TokenRefreshRequired, ExpiredToken}

GetSessionTokenErrors == {SessionTokenDenied, AccessDenied}

\* AssumeRole's answers: two sets of temporary credentials
AssumeRoleResponses ==
    { [Credentials |-> [AccessKeyId |-> <<"A", "S", "I", "A", "1">>, SecretAccessKey |-> <<"r", "s", "1">>,
                        SessionToken |-> <<"r", "t", "1">>]],
      [Credentials |-> [AccessKeyId |-> <<"A", "S", "I", "A", "2">>, SecretAccessKey |-> <<"r", "s", "2">>,
                        SessionToken |-> <<"r", "t", "2">>]] }

NoResponse ==
    [Credentials |-> [AccessKeyId |-> Undefined, SecretAccessKey |-> Undefined,
                      SessionToken |-> Undefined]]

-----------------------------------------------------------------------------
(* trust policy documents *)

\* Statement[0].Principal.AWS: absent, one string, or an array of strings.
\* items holds the string (kind "string") or the elements (kind "array").
NoSection == [kind |-> "undefined", items |-> <<>>]

Scalar(arn) == [kind |-> "string", items |-> <<arn>>]

Array(arns) == [kind |-> "array", items |-> arns]

\* truthiness of the field: absent and '' are falsy, every array is truthy
TruthySection(section) ==
    CASE section.kind = "undefined" -> FALSE
      [] section.kind = "string" -> section.items[1] # <<>>
      [] OTHER -> TRUE

\* the decoded document: the statement the helper works on, and a further one
PolicyDocument(section) ==
    [ Version |-> "2012-10-17",
      Statement |-> << [ Effect |-> "Allow",
                         Principal |-> [Service |-> "lambda.amazonaws.com", AWS |-> section],
                         Action |-> "sts:AssumeRole" ],
                       [ Effect |-> "Allow",
                         Principal |-> [Service |-> "edgelambda.amazonaws.com",
                                        AWS |-> NoSection],
                         Action |-> "sts:AssumeRole" ] >> ]

NoPolicy == [Version |-> "", Statement |-> <<>>]

\* trustPolicy.Statement[0].Principal.AWS
AwsGroupInRole(trustPolicy) == trustPolicy.Statement[1].Principal.AWS

\* a mistaken assignment: the field is written in every statement
WithAwsGroupEveryStatement(trustPolicy, section) ==
    [trustPolicy EXCEPT !.Statement =
        [i \in DOMAIN @ |-> [@[i] EXCEPT !.Principal.AWS = section]]]

\* trustPolicy.Statement[0].Principal.AWS = section
WithAwsGroup(trustPolicy, section) ==
    [trustPolicy EXCEPT !.Statement[1].Principal.AWS = section]

\* Array.prototype.find with (e) => e === principal: the element, or undefined
Find(items, principal) ==
    IF \E i \in 1..Len(items) : items[i] = principal
    THEN items[CHOOSE i \in 1..Len(items) :
                   /\ items[i] = principal
                   /\ \A j \in 1..(i - 1) : items[j] # principal]
    ELSE Undefined

\* a mistaken check: an array is always taken to lack the caller
ShouldUpdateRoleArrayAlways(section, principal) ==
    IF ~TruthySection(section) THEN TRUE
    ELSE IF section.kind = "array" THEN TRUE
    ELSE section.items[1] # principal

ShouldUpdateRole(section, principal) ==
    IF ~TruthySection(section) THEN TRUE
    ELSE IF section.kind = "array" THEN ~Truthy(Find(section.items, principal))
    ELSE section.items[1] # principal

\* [awsGroupInRole, principal].flat(): one level of arrays is spliced in
Flat(section, principal) ==
    IF section.kind = "array"
    THEN Array(section.items \o <<principal>>)
    ELSE Array(<<section.items[1], principal>>)

\* a mistaken update: the caller is put in front of the trusted principals
NewAwsGroupCallerFirst(section, principal) ==
    IF TruthySection(section)
    THEN Array(<<principal>> \o section.items)
    ELSE Scalar(principal)

\* awsGroupInRole ? [awsGroupInRole, this.principal].flat() : this.principal
NewAwsGroup(section, principal) ==
    IF TruthySection(section) THEN Flat(section, principal) ELSE Scalar(principal)

-----------------------------------------------------------------------------
(* the IamTestHelper object *)

Slots == {"A", "B"}

\* the slots in use when one role is assumed at a time
SerialSlots == {"A"}

NoCredentials == [accessKeyId |-> Undefined, secretAccessKey |-> Undefined,
                  sessionToken |-> Undefined]

\* a mistaken detection: the start URL marker is not looked at
DetectSSONoStartUrl(e) ==
    IF Truthy(e["AWS_SSO_SESSION_NAME"])
    THEN TRUE
    ELSE LET profile == e["AWS_PROFILE"]
         IN  IF Truthy(profile) /\ (Includes(profile, <<"-", "s", "s", "o">>) \/ EndsWith(profile, <<"s", "s", "o">>))
             THEN TRUE
             ELSE FALSE

DetectSSO(e) ==
    IF Truthy(e["AWS_SSO_SESSION_NAME"]) \/ Truthy(e["AWS_SSO_START_URL"])
    THEN TRUE
    ELSE LET profile == e["AWS_PROFILE"]
         IN  IF Truthy(profile) /\ (Includes(profile, <<"-", "s", "s", "o">>) \/ EndsWith(profile, <<"s", "s", "o">>))
             THEN TRUE
             ELSE FALSE

\* The fields of the object, then where its asynchronous calls stand (pc, timer,
\* error) and, for the properties, what has happened to it: the context before
\* the call (pre), the remote calls issued and when (calls, clock), the restore
\* entry points used (restores), AssumeRole's answer, the fetched principals,
\* the entry point that made it (entry), the last error a service answered and
\* the call it answered (remoteError, failedOp), the timers that ran out
\* (sleeps), how each restore verification ended (verified), the slots whose
\* helpers were installed and not restored when assumeUserRoleBack() was
\* called on this one (restoredOver).
NoHelper ==
    [ roleName |-> Undefined, roleArn |-> Undefined, credentials |-> NoCredentials,
      isSSO |-> FALSE, originalCredentialState |-> [v \in CredentialVars |-> Undefined],
      awsAccountId |-> Undefined, principal |-> Undefined, masterCredentials |-> "undefined",
      trustPolicy |-> NoPolicy,
      pc |-> "none", timer |-> 0, error |-> NoError,
      pre |-> [v \in CredentialVars |-> Undefined], lambdaName |-> Undefined,
      calls |-> <<>>, clock |-> 0, restores |-> <<>>, assumeRoleData |-> NoResponse,
      fetched |-> NoSection, caller |-> Undefined, updateDoneAt |-> 0, priorRuns |-> {},
      entry |-> "", remoteError |-> NoError, failedOp |-> "", sleeps |-> <<>>,
      verified |-> <<>>, restoredOver |-> {} ]

\* a mistaken constructor: the snapshot leaves the session token out
NewIamTestHelperNoToken(roleName, e) ==
    [ NoHelper EXCEPT
        !.roleName = roleName,
        !.isSSO = DetectSSO(e),
        !.originalCredentialState =
            [CredentialState(e) EXCEPT !["AWS_SESSION_TOKEN"] = Undefined],
        !.pc = "constructed" ]

\* new IamTestHelper(roleName)
NewIamTestHelper(roleName, e) ==
    [ NoHelper EXCEPT
        !.roleName = roleName,
        !.isSSO = DetectSSO(e),
        !.originalCredentialState = CredentialState(e),
        !.pc = "constructed" ]

\* a remote call is sent and awaited
Issue(h, op) ==
    [h EXCEPT !.pc = op, !.calls = Append(@, [op |-> op, at |-> h.clock])]

\* a mistaken rejection: the error is wrapped in a new Error
ThrowWrapped(h, err) ==
    [h EXCEPT !.pc = "failed", !.error = [name |-> "Error", message |-> err.message]]

\* the pipeline rejects
Throw(h, err) == [h EXCEPT !.pc = "failed", !.error = err]

\* a remote call answered with an error
Answered(h, error) == [h EXCEPT !.remoteError = error, !.failedOp = h.pc]

SsoExpiredError ==
    [ name |-> "Error",
      message |-> <<"S", "S", "O", " ", "t", "o", "k", "e", "n", " ", "e", "x", "p", "i", "r", "e", "d", ".", " ", "P", "l", "e", "a", "s", "e", " ", "r", "u", "n", ":", " ", "a", "w", "s", " ", "s", "s", "o", " ", "l", "o", "g", "i", "n", " ", "-", "-", "p", "r", "o", "f", "i", "l", "e", " ", "<", "y", "o", "u", "r", "-", "p", "r", "o", "f", "i", "l", "e", ">">> ]

\* a mistaken catch: every error is re-raised as it came
GetCallerIdentityCatchRethrow(error) == error

\* getCallerIdentity(): what its catch block throws
GetCallerIdentityCatch(error) ==
    IF error.name = "TokenRefreshRequired" THEN SsoExpiredError ELSE error

\* a mistaken classification: the flag is assigned from the ARN alone
ClassifyByArnAssigned(isSSO, arn) ==
    Includes(arn, <<"A", "W", "S", "R", "e", "s", "e", "r", "v", "e", "d", "S", "S", "O", "_">>) \/ Includes(arn, <<"/", "s", "s", "o", "-", "s", "e", "s", "s", "i", "o", "n", "/">>)

\* getCallerIdentity(): this.isSSO after the look at the caller's ARN
ClassifyByArn(isSSO, arn) ==
    IF Includes(arn, <<"A", "W", "S", "R", "e", "s", "e", "r", "v", "e", "d", "S", "S", "O", "_">>) \/ Includes(arn, <<"/", "s", "s", "o", "-", "s", "e", "s", "s", "i", "o", "n", "/">>)
    THEN TRUE
    ELSE isSSO

\* new Error(`You need to define in Lambda variables: stage(${stage}), ...`)
ConfigError(stage, envRegion, service) ==
    [ name |-> "Error",
      message |-> <<"Y", "o", "u", " ", "n", "e", "e", "d", " ", "t", "o", " ", "d", "e", "f", "i", "n", "e", " ", "i", "n", " ", "L", "a", "m", "b", "d", "a", " ", "v", "a", "r", "i", "a", "b", "l", "e", "s", ":", " ", "s", "t", "a", "g", "e", "(">> \o TemplateStr(stage)
                      \o <<")", ",", " ", "r", "e", "g", "i", "o", "n", "(">> \o TemplateStr(envRegion)
                      \o <<")", ",", " ", "s", "e", "r", "v", "i", "c", "e", "(">> \o TemplateStr(service) \o <<")", ".">> ]

\* a mistaken copy: the secret and the token change places
RewriteCredentialsSwapped(data) ==
    [ accessKeyId |-> data.Credentials.AccessKeyId,
      secretAccessKey |-> data.Credentials.SessionToken,
      sessionToken |-> data.Credentials.SecretAccessKey ]

RewriteCredentials(data) ==
    [ accessKeyId |-> data.Credentials.AccessKeyId,
      secretAccessKey |-> data.Credentials.SecretAccessKey,
      sessionToken |-> data.Credentials.SessionToken ]

\* a mistaken install: AWS_PROFILE is left in place
SetCredentialsInEnvKeepProfile(h, e) ==
    [ e EXCEPT !["AWS_ACCESS_KEY_ID"] = h.credentials.accessKeyId,
               !["AWS_SECRET_ACCESS_KEY"] = h.credentials.secretAccessKey,
               !["AWS_SESSION_TOKEN"] = h.credentials.sessionToken ]

\* setCredentialsInEnv(): process.env afterwards
SetCredentialsInEnv(h, e) ==
    LET e1 == IF h.isSSO THEN DeleteEnv(e, {"AWS_PROFILE"}) ELSE e
    IN  [ e1 EXCEPT !["AWS_ACCESS_KEY_ID"] = h.credentials.accessKeyId,
                    !["AWS_SECRET_ACCESS_KEY"] = h.credentials.secretAccessKey,
                    !["AWS_SESSION_TOKEN"] = h.credentials.sessionToken ]

\* static assumeUserRoleBack(): process.env afterwards
StaticAssumeUserRoleBack(e) == DeleteEnv(e, StaticCredentialVars)

\* process.env[v] = state[v] for the v in names that state defines
Reinstate(e, state, names) ==
    [v \in EnvVars |-> IF v \in names /\ state[v] # Undefined THEN state[v] ELSE e[v]]

\* a mistaken restore: the session token is not put back
AssumeUserRoleBackEnvNoToken(h, e) ==
    LET e1 == DeleteEnv(e, StaticCredentialVars)
    IN  IF h.isSSO
        THEN Reinstate(e1, h.originalCredentialState, {"AWS_PROFILE"})
        ELSE Reinstate(e1, h.originalCredentialState,
                       {"AWS_ACCESS_KEY_ID", "AWS_SECRET_ACCESS_KEY", "AWS_PROFILE"})

\* assumeUserRoleBack(), up to its first await: process.env afterwards
AssumeUserRoleBackEnv(h, e) ==
    LET e1 == DeleteEnv(e, StaticCredentialVars)
    IN  IF h.isSSO
        THEN Reinstate(e1, h.originalCredentialState, {"AWS_PROFILE"})
        ELSE Reinstate(e1, h.originalCredentialState, CredentialVars)

\* a mistaken sleep: the seconds are handed to setTimeout as milliseconds
SleepMsUnscaled(seconds) == seconds

\* sleep(seconds): the delay handed to setTimeout
SleepMs(seconds) == seconds * 1000

-----------------------------------------------------------------------------
(* executeRoleAssume: each method runs until it awaits a remote call *)

\* arn:aws:iam::${this.awsAccountId}:role/${this.roleName}
RoleArn(h) ==
    <<"a", "r", "n", ":", "a", "w", "s", ":", "i", "a", "m", ":", ":">> \o TemplateStr(h.awsAccountId) \o <<":", "r", "o", "l", "e", "/">> \o TemplateStr(h.roleName)

\* the ARN the role's own session reports
AssumedRoleArn(h) ==
    <<"a", "r", "n", ":", "a", "w", "s", ":", "s", "t", "s", ":", ":">> \o h.awsAccountId \o <<":", "a", "s", "s", "u", "m", "e", "d", "-", "r", "o", "l", "e", "/">> \o h.roleName \o <<"/", "t", "e", "s", "t", "S", "e", "s", "s", "i", "o", "n">>

\* assumeLambdaRole() up to its await
AssumeLambdaRoleStart(h) == Issue([h EXCEPT !.roleArn = RoleArn(h)], "AssumeRole")

\* updateRoleTrustPolicy() up to its first await, or to its end when the caller
\* is trusted already
UpdateRoleTrustPolicyStart(h) ==
    LET awsGroupInRole == AwsGroupInRole(h.trustPolicy)
    IN  IF ShouldUpdateRole(awsGroupInRole, h.principal)
        THEN Issue([h EXCEPT !.trustPolicy =
                                 WithAwsGroup(@, NewAwsGroup(awsGroupInRole, h.principal))],
                   "UpdateAssumeRolePolicy")
        ELSE AssumeLambdaRoleStart(h)

\* getRoleTrustPolicy() up to its await
GetRoleTrustPolicyStart(h) == Issue(h, "GetRole")

\* a mistaken start: the session token is asked for whoever the caller is
GetCallerCredentialsStartAlways(h) == Issue(h, "GetSessionToken")

\* getCallerCredentials() up to its await, or to its end for an SSO caller
GetCallerCredentialsStart(h) ==
    IF h.isSSO
    THEN GetRoleTrustPolicyStart([h EXCEPT !.masterCredentials = "null"])
    ELSE Issue(h, "GetSessionToken")

\* a new lifecycle may start in slot s
Idle(s) == helper[s].pc \in {"none", "failed", "restored"}

\* static executeRoleAssume(roleName), up to the await of GetCallerIdentity
ExecuteRoleAssumeStart(roleName, lambdaName) ==
    Issue([ NewIamTestHelper(roleName, env) EXCEPT
              !.pre = CredentialState(env),
              !.lambdaName = lambdaName,
              !.priorRuns = trustedRuns ],
          "GetCallerIdentity")

\* the role names handed to assumeRoleByFullName
FullRoleNames == {<<"m", "y", "a", "p", "p", "-", "d", "e", "v", "-", "c", "r", "e", "a", "t", "e", "I", "t", "e", "m", "-", "u", "s", "-", "e", "a", "s", "t", "-", "1", "-", "l", "a", "m", "b", "d", "a", "R", "o", "l", "e">>, <<"n", "o", "s", "u", "c", "h", "r", "o", "l", "e">>}

\* new IamTestHelper(roleName), called directly: no role is assumed
newIamTestHelper(s) ==
    /\ Idle(s)
    /\ \E roleName \in FullRoleNames :
         helper' = [helper EXCEPT ![s] =
             [ NewIamTestHelper(roleName, env) EXCEPT
                 !.pre = CredentialState(env), !.entry = "new IamTestHelper" ]]
    /\ UNCHANGED <<env, iamRole, trustedRuns, suite>>

assumeRoleByFullName(s) ==
    /\ Idle(s)
    /\ \E roleName \in FullRoleNames :
         helper' = [helper EXCEPT ![s] =
             [ExecuteRoleAssumeStart(roleName, Undefined) EXCEPT !.entry = "assumeRoleByFullName"]]
    /\ UNCHANGED <<env, iamRole, trustedRuns, suite>>

\* static assumeRoleByLambdaName(lambdaName), up to its first await or its throw
AssumeRoleByLambdaNameStart(lambdaName) ==
    IF ~Truthy(env["stage"]) \/ ~Truthy(env["region"]) \/ ~Truthy(env["service"])
    THEN [ Throw(NoHelper, ConfigError(env["stage"], env["region"], env["service"])) EXCEPT
             !.pre = CredentialState(env), !.lambdaName = lambdaName,
             !.entry = "assumeRoleByLambdaName" ]
    ELSE [ ExecuteRoleAssumeStart(
               DeriveRoleName(env["service"], env["stage"], lambdaName, env["region"]),
               lambdaName)
           EXCEPT !.entry = "assumeRoleByLambdaName" ]

assumeRoleByLambdaName(s, lambdaName) ==
    /\ Idle(s)
    /\ helper' = [helper EXCEPT ![s] = AssumeRoleByLambdaNameStart(lambdaName)]
    /\ UNCHANGED <<env, iamRole, trustedRuns, suite>>

\* getCallerIdentity() from the answer of GetCallerIdentity on
getCallerIdentity(s) ==
    /\ helper[s].pc = "GetCallerIdentity"
    /\ \/ \E response \in CallerIdentities :
            LET h1 == [ helper[s] EXCEPT
                          !.awsAccountId = response.Account,
                          !.principal = response.Arn,
                          !.caller = response.Arn,
                          !.isSSO = ClassifyByArn(@, response.Arn) ]
            IN  helper' = [helper EXCEPT ![s] = GetCallerCredentialsStart(h1)]
       \/ \E error \in GetCallerIdentityErrors :
            helper' = [helper EXCEPT ![s] =
                Throw(Answered(@, error), GetCallerIdentityCatch(error))]
    /\ UNCHANGED <<env, iamRole, trustedRuns, suite>>

\* a mistaken catch: every AccessDenied is read as the SSO signal
GetCallerCredentialsCatchByName(h, error) ==
    IF error.name = "AccessDenied"
    THEN GetRoleTrustPolicyStart(
             [Answered(h, error) EXCEPT !.isSSO = TRUE, !.masterCredentials = "null"])
    ELSE Throw(Answered(h, error), error)

\* getCallerCredentials(): its catch block, then getRoleTrustPolicy() or the throw
GetCallerCredentialsCatch(h, error) ==
    IF error.name = "AccessDenied"
       /\ Includes(error.message, <<"G", "e", "t", "S", "e", "s", "s", "i", "o", "n", "T", "o", "k", "e", "n", " ", "w", "i", "t", "h", " ", "s", "e", "s", "s", "i", "o", "n", " ", "c", "r", "e", "d", "e", "n", "t", "i", "a", "l", "s">>)
    THEN GetRoleTrustPolicyStart(
             [Answered(h, error) EXCEPT !.isSSO = TRUE, !.masterCredentials = "null"])
    ELSE Throw(Answered(h, error), error)

\* getCallerCredentials() from the answer of GetSessionToken on
getCallerCredentials(s) ==
    /\ helper[s].pc = "GetSessionToken"
    /\ \/ helper' = [helper EXCEPT ![s] =
                GetRoleTrustPolicyStart([@ EXCEPT !.masterCredentials = "credentials"])]
       \/ \E error \in GetSessionTokenErrors :
            helper' = [helper EXCEPT ![s] = GetCallerCredentialsCatch(@, error)]
    /\ UNCHANGED <<env, iamRole, trustedRuns, suite>>

\* getRoleTrustPolicy() from the answer of GetRole on, then updateRoleTrustPolicy()
getRoleTrustPolicy(s) ==
    /\ helper[s].pc = "GetRole"
    /\ \/ /\ helper[s].roleName = iamRole.RoleName
          /\ LET h1 == [ helper[s] EXCEPT
                           !.trustPolicy = iamRole.AssumeRolePolicyDocument,
                           !.fetched = AwsGroupInRole(iamRole.AssumeRolePolicyDocument) ]
                 h2 == UpdateRoleTrustPolicyStart(h1)
             IN  /\ helper' = [helper EXCEPT ![s] = h2]
                 /\ trustedRuns' = IF h2.pc = "AssumeRole"
                                   THEN trustedRuns \cup {h2.principal}
                                   ELSE trustedRuns
       \/ /\ LET error == IF helper[s].roleName = iamRole.RoleName
                          THEN AccessDenied ELSE NoSuchEntity
             IN  helper' = [helper EXCEPT ![s] = Throw(Answered(@, error), error)]
          /\ UNCHANGED trustedRuns
    /\ UNCHANGED <<env, iamRole, suite>>

\* updateRoleTrustPolicy() from the answer of UpdateAssumeRolePolicy to the sleep
updateRoleTrustPolicy(s) ==
    /\ helper[s].pc = "UpdateAssumeRolePolicy"
    /\ \/ /\ iamRole' = [iamRole EXCEPT !.AssumeRolePolicyDocument = helper[s].trustPolicy]
          /\ helper' = [helper EXCEPT ![s] =
                [@ EXCEPT !.pc = "sleep", !.timer = SleepMs(SettleSeconds),
                          !.updateDoneAt = helper[s].clock]]
       \/ /\ helper' = [helper EXCEPT ![s] = Throw(Answered(@, AccessDenied), AccessDenied)]
          /\ UNCHANGED iamRole
    /\ UNCHANGED <<env, trustedRuns, suite>>

\* the settle timer fires: updateRoleTrustPolicy() returns, assumeLambdaRole() starts
settled(s) ==
    /\ helper[s].pc = "sleep"
    /\ helper' = [helper EXCEPT ![s] =
          AssumeLambdaRoleStart([@ EXCEPT !.clock = @ + helper[s].timer, !.timer = 0,
                                          !.sleeps = Append(@, helper[s].timer)])]
    /\ trustedRuns' = trustedRuns \cup {helper[s].principal}
    /\ UNCHANGED <<env, iamRole, suite>>

\* a mistaken failure path: the trust policy is fetched and checked once more
AssumeLambdaRoleFailedRetries(h, error) == GetRoleTrustPolicyStart(Answered(h, error))

\* assumeLambdaRole(): AssumeRole is refused, the await rejects
AssumeLambdaRoleFailed(h, error) == Throw(Answered(h, error), error)

\* assumeLambdaRole() from the answer of AssumeRole on
assumeLambdaRole(s) ==
    /\ helper[s].pc = "AssumeRole"
    /\ \/ \E data \in AssumeRoleResponses :
            helper' = [helper EXCEPT ![s] =
                Issue([@ EXCEPT !.credentials = RewriteCredentials(data),
                                !.assumeRoleData = data],
                      "GetCallerIdentityInRole")]
       \/ helper' = [helper EXCEPT ![s] = AssumeLambdaRoleFailed(@, AccessDenied)]
    /\ UNCHANGED <<env, iamRole, trustedRuns, suite>>

\* getCallerIdentityInRole() from its answer on, then setCredentialsInEnv()
getCallerIdentityInRole(s) ==
    /\ helper[s].pc = "GetCallerIdentityInRole"
    /\ \/ LET h1 == [ helper[s] EXCEPT
                        !.principal = AssumedRoleArn(helper[s]),
                        !.pc = "assumed" ]
          IN  /\ helper' = [helper EXCEPT ![s] = h1]
              /\ env' = SetCredentialsInEnv(h1, env)
       \/ /\ helper' = [helper EXCEPT ![s] = Throw(Answered(@, ExpiredToken), ExpiredToken)]
          /\ UNCHANGED env
    /\ UNCHANGED <<iamRole, trustedRuns, suite>>

\* refreshCredentials() on a helper that was handed out, up to its await; an
\* SSO helper returns at once
refreshCredentialsCall(s) ==
    /\ helper[s].pc = "assumed"
    /\ Cardinality({i \in 1..Len(helper[s].calls) :
                        helper[s].calls[i].op = "GetSessionTokenRefresh"}) < MaxRefreshes
    /\ helper' = [helper EXCEPT ![s] =
          IF helper[s].isSSO THEN @ ELSE Issue(@, "GetSessionTokenRefresh")]
    /\ UNCHANGED <<env, iamRole, trustedRuns, suite>>

\* refreshCredentials() from the answer of GetSessionToken on: the new master
\* credentials are kept, or the error is re-raised to the caller
refreshCredentials(s) ==
    /\ helper[s].pc = "GetSessionTokenRefresh"
    /\ \/ helper' = [helper EXCEPT ![s] =
                [@ EXCEPT !.masterCredentials = "credentials", !.pc = "assumed"]]
       \/ \E error \in GetSessionTokenErrors :
            helper' = [helper EXCEPT ![s] = [@ EXCEPT !.pc = "assumed"]]
    /\ UNCHANGED <<env, iamRole, trustedRuns, suite>>

-----------------------------------------------------------------------------
(* the ways back *)

\* a restore entry point may be called on the helper of slot s
Restorable(s) ==
    /\ helper[s].pc \in {"constructed", "assumed", "restored"}
    /\ Len(helper[s].restores) < MaxRestores

\* a mistaken restore: the wait and the verification run for every helper
AssumeUserRoleBackStartAlwaysWaits(h) ==
    [h EXCEPT !.restores = Append(@, "assumeUserRoleBack"),
              !.pc = "restoreSleep",
              !.timer = SsoSettleMs]

\* a mistaken restore: the caller is taken out of the trust policy again
AssumeUserRoleBackStartUntrusts(h) ==
    IF h.trustPolicy = NoPolicy
    THEN [h EXCEPT !.restores = Append(@, "assumeUserRoleBack"),
                   !.pc = IF h.isSSO THEN "restoreSleep" ELSE "restored",
                   !.timer = IF h.isSSO THEN SsoSettleMs ELSE 0]
    ELSE Issue([h EXCEPT !.restores = Append(@, "assumeUserRoleBack"),
                         !.trustPolicy = WithAwsGroup(@, h.fetched)],
               "UpdateAssumeRolePolicy")

\* a mistaken restore: the snapshot is dropped once it has been written back
AssumeUserRoleBackStartForgets(h) ==
    [h EXCEPT !.restores = Append(@, "assumeUserRoleBack"),
              !.pc = IF h.isSSO THEN "restoreSleep" ELSE "restored",
              !.timer = IF h.isSSO THEN SsoSettleMs ELSE 0,
              !.originalCredentialState = [v \in CredentialVars |-> Undefined]]

\* the instance assumeUserRoleBack(), up to its first await: the helper afterwards
AssumeUserRoleBackStart(h) ==
    [h EXCEPT !.restores = Append(@, "assumeUserRoleBack"),
              !.pc = IF h.isSSO THEN "restoreSleep" ELSE "restored",
              !.timer = IF h.isSSO THEN SsoSettleMs ELSE 0]

\* the instance assumeUserRoleBack(), up to its first await
assumeUserRoleBack(s) ==
    /\ Restorable(s)
    /\ env' = AssumeUserRoleBackEnv(helper[s], env)
    /\ helper' = [helper EXCEPT ![s] =
          [ AssumeUserRoleBackStart(@) EXCEPT
              !.restoredOver = @ \cup {t \in Slots \ {s} : helper[t].pc = "assumed"} ]]
    /\ UNCHANGED <<iamRole, trustedRuns, suite>>

\* a mistaken catch: the failed verification is re-raised
VerifyFailedThrows(h) == Throw([h EXCEPT !.verified = Append(@, FALSE)], ExpiredToken)

\* assumeUserRoleBack(): the catch block of the verification, up to its wait
VerifyFailed(h) ==
    [h EXCEPT !.pc = "restoreRetry", !.timer = SsoRetryMs, !.verified = Append(@, FALSE)]

\* the 2 s timer fires: the verification GetCallerIdentity is sent
ssoSettled(s) ==
    /\ helper[s].pc = "restoreSleep"
    /\ helper' = [helper EXCEPT ![s] =
          Issue([@ EXCEPT !.clock = @ + helper[s].timer, !.timer = 0,
                          !.sleeps = Append(@, helper[s].timer)],
                "GetCallerIdentityVerify")]
    /\ UNCHANGED <<env, iamRole, trustedRuns, suite>>

\* the verification answers: done, or one more wait
ssoVerified(s) ==
    /\ helper[s].pc = "GetCallerIdentityVerify"
    /\ \/ helper' = [helper EXCEPT ![s] =
                [@ EXCEPT !.pc = "restored", !.verified = Append(@, TRUE)]]
       \/ helper' = [helper EXCEPT ![s] = VerifyFailed(@)]
    /\ UNCHANGED <<env, iamRole, trustedRuns, suite>>

\* the 3 s timer fires: assumeUserRoleBack() returns
ssoRetried(s) ==
    /\ helper[s].pc = "restoreRetry"
    /\ helper' = [helper EXCEPT ![s] =
          [@ EXCEPT !.clock = @ + helper[s].timer, !.timer = 0, !.pc = "restored",
                    !.sleeps = Append(@, helper[s].timer)]]
    /\ UNCHANGED <<env, iamRole, trustedRuns, suite>>

\* the instance leaveLambdaRole(): the static assumeUserRoleBack, called on this
leaveLambdaRole(s) ==
    /\ Restorable(s)
    /\ env' = StaticAssumeUserRoleBack(env)
    /\ helper' = [helper EXCEPT ![s] =
          [@ EXCEPT !.restores = Append(@, "leaveLambdaRole"), !.pc = "restored"]]
    /\ UNCHANGED <<iamRole, trustedRuns, suite>>

\* the static IamTestHelper.leaveLambdaRole(), called to end the session of slot s
staticLeaveLambdaRole(s) ==
    /\ Restorable(s)
    /\ env' = StaticAssumeUserRoleBack(env)
    /\ helper' = [helper EXCEPT ![s] =
          [@ EXCEPT !.restores = Append(@, "IamTestHelper.leaveLambdaRole"), !.pc = "restored"]]
    /\ UNCHANGED <<iamRole, trustedRuns, suite>>

-----------------------------------------------------------------------------
(* withAssumedRole: the hooks it registers, run by the test runner in the     *)
(* order beforeAll, the tests of the block, afterAll                          *)

\* let iamHelper; const { cleanup } = options: nothing has run yet
NoSuite ==
    [ pc |-> "registered", iamHelper |-> "undefined", cleanup |-> "undefined",
      ran |-> 0, thrown |-> FALSE, cleanups |-> 0 ]

\* options.cleanup: absent, or a function whose promise resolves or rejects
CleanupOptions == {"undefined", "resolves", "rejects"}

\* a mistaken teardown: the restore is never called
ShouldRestoreNever(iamHelper) == FALSE

\* afterAll: if (iamHelper)
ShouldRestore(iamHelper) == iamHelper # "undefined"

\* a mistaken teardown: assumeUserRoleBack() is called but not awaited
RestoreReturnedNoAwait(h) == TRUE

\* afterAll: await iamHelper.assumeUserRoleBack() has returned
RestoreReturned(h) == h.pc = "restored"

\* the beforeAll hook up to its await; the options are those of this block
beforeAll(s, lambdaName) ==
    /\ suite.pc = "registered"
    /\ Idle(s)
    /\ \E cleanup \in CleanupOptions :
         suite' = [suite EXCEPT !.pc = "beforeAll", !.cleanup = cleanup]
    /\ helper' = [helper EXCEPT ![s] = AssumeRoleByLambdaNameStart(lambdaName)]
    /\ UNCHANGED <<env, iamRole, trustedRuns>>

\* assumeRoleByLambdaName settles: iamHelper is assigned, or the hook fails
\* and iamHelper stays undefined
beforeAllSettled(s) ==
    /\ suite.pc = "beforeAll"
    /\ helper[s].pc \in {"assumed", "failed"}
    /\ suite' = [suite EXCEPT !.pc = "tests",
                              !.iamHelper = IF helper[s].pc = "assumed" THEN s ELSE @]
    /\ UNCHANGED <<env, iamRole, helper, trustedRuns>>

\* one test of the block passes or throws
test(s) ==
    /\ suite.pc = "tests"
    /\ suite.ran < NumTests
    /\ \E throws \in BOOLEAN :
         suite' = [suite EXCEPT !.ran = @ + 1, !.thrown = @ \/ throws]
    /\ UNCHANGED <<env, iamRole, helper, trustedRuns>>

\* the afterAll hook up to its first await, or to its end without a helper
afterAll(s) ==
    /\ suite.pc = "tests"
    /\ IF ShouldRestore(suite.iamHelper)
       THEN /\ env' = AssumeUserRoleBackEnv(helper[suite.iamHelper], env)
            /\ helper' = [helper EXCEPT ![suite.iamHelper] = AssumeUserRoleBackStart(@)]
            /\ suite' = [suite EXCEPT !.pc = "afterAll"]
       ELSE /\ suite' = [suite EXCEPT !.pc = "done"]
            /\ UNCHANGED <<env, helper>>
    /\ UNCHANGED <<iamRole, trustedRuns>>

\* assumeUserRoleBack() has returned: cleanup is called if there is one
afterAllRestored(s) ==
    /\ suite.pc = "afterAll"
    /\ RestoreReturned(helper[s])
    /\ suite' = IF suite.cleanup # "undefined"
                THEN [suite EXCEPT !.pc = "cleanup", !.cleanups = @ + 1]
                ELSE [suite EXCEPT !.pc = "done"]
    /\ UNCHANGED <<env, iamRole, helper, trustedRuns>>

\* cleanup's promise settles: the hook ends
cleanupSettled(s) ==
    /\ suite.pc = "cleanup"
    /\ suite' = [suite EXCEPT !.pc = "done"]
    /\ UNCHANGED <<env, iamRole, helper, trustedRuns>>

-----------------------------------------------------------------------------
(* the states the process starts in *)

\* each static credential variable is set or unset on its own; the profile is
\* unset, a plain one or one named after SSO; an SSO marker may be set
CredentialContexts ==
    { [v \in CredentialVars |->
          CASE v = "AWS_ACCESS_KEY_ID" -> IF k THEN <<"A", "K", "I", "A", "0">> ELSE Undefined
            [] v = "AWS_SECRET_ACCESS_KEY" -> IF x THEN <<"u", "s", "0">> ELSE Undefined
            [] v = "AWS_SESSION_TOKEN" -> IF t THEN <<"u", "t", "0">> ELSE Undefined
            [] OTHER -> p] :
        k \in BOOLEAN, x \in BOOLEAN, t \in BOOLEAN, p \in {Undefined, <<"d", "e", "v">>, <<"m", "y", "-", "s", "s", "o">>} }

NoSsoMarkers == [AWS_SSO_SESSION_NAME |-> Undefined, AWS_SSO_START_URL |-> Undefined]

SsoMarkers ==
    { NoSsoMarkers,
      [AWS_SSO_SESSION_NAME |-> <<"c", "o", "r", "p">>, AWS_SSO_START_URL |-> Undefined],
      [AWS_SSO_SESSION_NAME |-> Undefined, AWS_SSO_START_URL |-> <<"h", "t", "t", "p", "s", ":", "/", "/", "x">>] }

Naming(service, stage, region) == [service |-> service, stage |-> stage, region |-> region]

\* the naming variables as deployed, and with the stage unset
DeployedNaming == Naming(<<"m", "y", "a", "p", "p">>, <<"d", "e", "v">>, <<"u", "s", "-", "e", "a", "s", "t", "-", "1">>)

StageUnsetNaming == Naming(<<"m", "y", "a", "p", "p">>, Undefined, <<"u", "s", "-", "e", "a", "s", "t", "-", "1">>)

\* the naming variables of the derivation runs
DerivationNamings ==
    { Naming(service, stage, region) :
        service \in {<<"m", "y", "a", "p", "p">>, Rep("s", 12)},
        stage \in {<<"d", "e", "v">>, <<"p", "r", "o", "d", "u", "c", "t", "i", "o", "n">>, <<>>, Undefined},
        region \in {<<"u", "s", "-", "e", "a", "s", "t", "-", "1">>, <<"a", "p", "-", "s", "o", "u", "t", "h", "e", "a", "s", "t", "-", "2">>} }

\* lengths around the two places where the derived name changes shape
FnLens == {1, 33, 34, 44, MaxFnLen}

PipelineLambdaNames == {<<"c", "r", "e", "a", "t", "e", "I", "t", "e", "m">>}

DerivationLambdaNames == {<<"c", "r", "e", "a", "t", "e", "I", "t", "e", "m">>, Undefined, <<>>} \cup {Rep("f", n) : n \in FnLens}

MakeEnv(c, m, n) ==
    [v \in EnvVars |->
        CASE v \in CredentialVars -> c[v]
          [] v = "AWS_SSO_SESSION_NAME" -> m.AWS_SSO_SESSION_NAME
          [] v = "AWS_SSO_START_URL" -> m.AWS_SSO_START_URL
          [] v = "stage" -> n.stage
          [] v = "region" -> n.region
          [] OTHER -> n.service]

\* the Principal.AWS fields the role may hold before the first run
InitialSections ==
    { NoSection, Scalar(<<>>), Array(<<>>), Scalar(UserArn), Scalar(OtherArn),
      Array(<<OtherArn, UserArn>>), Array(<<OtherArn>>) }

DeployedRole(section) ==
    [ RoleName |-> <<"m", "y", "a", "p", "p", "-", "d", "e", "v", "-", "c", "r", "e", "a", "t", "e", "I", "t", "e", "m", "-", "u", "s", "-", "e", "a", "s", "t", "-", "1", "-", "l", "a", "m", "b", "d", "a", "R", "o", "l", "e">>,
      AssumeRolePolicyDocument |-> PolicyDocument(section) ]

\* the credential contexts of the session runs and of the runs with an SSO
\* marker: the key pair set or unset, the token set or unset, each profile
SessionContexts ==
    { c \in CredentialContexts :
        (c["AWS_ACCESS_KEY_ID"] = Undefined) <=> (c["AWS_SECRET_ACCESS_KEY"] = Undefined) }

Init ==
    /\ env \in {MakeEnv(c, NoSsoMarkers, DeployedNaming) : c \in CredentialContexts}
               \cup {MakeEnv(c, m, DeployedNaming) : c \in SessionContexts, m \in SsoMarkers}
               \cup {MakeEnv(c, NoSsoMarkers, StageUnsetNaming) : c \in CredentialContexts}
    /\ iamRole \in {DeployedRole(section) : section \in InitialSections}
    /\ helper = [s \in Slots |-> NoHelper]
    /\ trustedRuns = {}
    /\ suite = NoSuite

Next ==
    \E s \in SerialSlots :
        \/ assumeRoleByFullName(s)
        \/ \E lambdaName \in PipelineLambdaNames : assumeRoleByLambdaName(s, lambdaName)
        \/ getCallerIdentity(s)
        \/ getCallerCredentials(s)
        \/ getRoleTrustPolicy(s)
        \/ updateRoleTrustPolicy(s)
        \/ settled(s)
        \/ assumeLambdaRole(s)
        \/ getCallerIdentityInRole(s)
        \/ assumeUserRoleBack(s)
        \/ ssoSettled(s)
        \/ ssoVerified(s)
        \/ ssoRetried(s)
        \/ leaveLambdaRole(s)
        \/ staticLeaveLambdaRole(s)

\* one role at a time: every entry point, every answer of the services
Spec == Init /\ [][Next]_vars

InitSession ==
    /\ env \in {MakeEnv(c, m, DeployedNaming) : c \in SessionContexts, m \in SsoMarkers}
    /\ iamRole = DeployedRole(Scalar(UserArn))
    /\ helper = [s \in Slots |-> NoHelper]
    /\ trustedRuns = {}
    /\ suite = NoSuite

NextSession ==
    \/ Next
    \/ \E s \in SerialSlots :
        \/ newIamTestHelper(s)
        \/ refreshCredentialsCall(s)
        \/ refreshCredentials(s)

\* the timers of the federated restore fire and its verification is answered
FairRestore ==
    \A s \in SerialSlots :
        /\ WF_vars(ssoSettled(s))
        /\ WF_vars(ssoVerified(s))
        /\ WF_vars(ssoRetried(s))

\* one role at a time, with refreshCredentials, over fewer contexts
SpecSession == InitSession /\ [][NextSession]_vars /\ FairRestore

InitWrapper ==
    /\ env \in {MakeEnv(c, m, DeployedNaming) : c \in SessionContexts, m \in SsoMarkers}
               \cup {MakeEnv(c, NoSsoMarkers, StageUnsetNaming) : c \in SessionContexts}
    /\ iamRole = DeployedRole(Scalar(UserArn))
    /\ helper = [s \in Slots |-> NoHelper]
    /\ trustedRuns = {}
    /\ suite = NoSuite

NextWrapper ==
    \E s \in SerialSlots :
        \/ \E lambdaName \in PipelineLambdaNames : beforeAll(s, lambdaName)
        \/ getCallerIdentity(s)
        \/ getCallerCredentials(s)
        \/ getRoleTrustPolicy(s)
        \/ updateRoleTrustPolicy(s)
        \/ settled(s)
        \/ assumeLambdaRole(s)
        \/ getCallerIdentityInRole(s)
        \/ beforeAllSettled(s)
        \/ test(s)
        \/ afterAll(s)
        \/ ssoSettled(s)
        \/ ssoVerified(s)
        \/ ssoRetried(s)
        \/ afterAllRestored(s)
        \/ cleanupSettled(s)

\* one block wrapped by withAssumedRole: the runner runs each hook and each
\* test to its end, the services answer, the timers fire
SpecWrapper == InitWrapper /\ [][NextWrapper]_vars /\ WF_vars(NextWrapper)

\* two helpers in one process: a user's static keys, or an SSO profile
InitOverlap ==
    /\ env \in { MakeEnv(c, NoSsoMarkers, DeployedNaming) :
                    c \in { x \in SessionContexts :
                              /\ x["AWS_PROFILE"] # <<"d", "e", "v">>
                              /\ (x["AWS_ACCESS_KEY_ID"] = Undefined) <=>
                                     (x["AWS_PROFILE"] # Undefined)
                              /\ (x["AWS_ACCESS_KEY_ID"] = Undefined) <=>
                                     (x["AWS_SESSION_TOKEN"] = Undefined) } }
    /\ iamRole = DeployedRole(Scalar(UserArn))
    /\ helper = [s \in Slots |-> NoHelper]
    /\ trustedRuns = {}
    /\ suite = NoSuite

\* each slot holds one helper, restored at most once; a second role may be
\* assumed while the first helper is in any state
NextOverlap ==
    \E s \in Slots :
        \/ helper[s].pc = "none" /\ assumeRoleByFullName(s)
        \/ \E lambdaName \in PipelineLambdaNames :
               helper[s].pc = "none" /\ assumeRoleByLambdaName(s, lambdaName)
        \/ getCallerIdentity(s)
        \/ getCallerCredentials(s)
        \/ getRoleTrustPolicy(s)
        \/ updateRoleTrustPolicy(s)
        \/ settled(s)
        \/ assumeLambdaRole(s)
        \/ getCallerIdentityInRole(s)
        \/ helper[s].pc = "assumed" /\ assumeUserRoleBack(s)
        \/ ssoSettled(s)
        \/ ssoVerified(s)
        \/ ssoRetried(s)
        \/ helper[s].pc = "assumed" /\ leaveLambdaRole(s)

\* two helpers of one process, their calls in any order
SpecOverlap == InitOverlap /\ [][NextOverlap]_vars

\* the derivation runs: one plain credential context per profile, every naming
InitDerivation ==
    /\ env \in { MakeEnv([v \in CredentialVars |-> IF v = "AWS_PROFILE" THEN p ELSE Undefined],
                         NoSsoMarkers, n) :
                 p \in {Undefined, <<"d", "e", "v">>, <<"m", "y", "-", "s", "s", "o">>}, n \in DerivationNamings }
    /\ iamRole = DeployedRole(NoSection)
    /\ helper = [s \in Slots |-> NoHelper]
    /\ trustedRuns = {}
    /\ suite = NoSuite

NextDerivation ==
    \E s \in SerialSlots, lambdaName \in DerivationLambdaNames :
        assumeRoleByLambdaName(s, lambdaName)

\* assumeRoleByLambdaName over the naming inputs
SpecDerivation == InitDerivation /\ [][NextDerivation]_vars

-----------------------------------------------------------------------------
(* properties *)

\* the helper has issued the remote call op
Issued(h, op) == \E i \in 1..Len(h.calls) : h.calls[i].op = op

\* the helper was handed out by a successful executeRoleAssume and then
\* restored by exactly the one call named
RestoredBy(h, entry) == h.restores = <<entry>>

\* the four credential variables are what they were before the assume
ContextAsBefore(h) == \A v \in CredentialVars : env[v] = h.pre[v]

\* C1: a STATIC session assumed and then restored with the instance
\* assumeUserRoleBack() leaves AWS_ACCESS_KEY_ID, AWS_SECRET_ACCESS_KEY,
\* AWS_SESSION_TOKEN and AWS_PROFILE as they were before the assume, unset
\* variables unset again.
C1_StaticRoundTrip ==
    \A s \in Slots :
        (RestoredBy(helper[s], "assumeUserRoleBack") /\ ~helper[s].isSSO)
            => ContextAsBefore(helper[s])

\* a STATIC round trip from a context with a key and a profile set and the
\* session token unset
C1_Witness ==
    \E s \in Slots :
        /\ RestoredBy(helper[s], "assumeUserRoleBack")
        /\ ~helper[s].isSSO
        /\ helper[s].pc = "restored"
        /\ helper[s].pre["AWS_ACCESS_KEY_ID"] # Undefined
        /\ helper[s].pre["AWS_SESSION_TOKEN"] = Undefined
        /\ helper[s].pre["AWS_PROFILE"] # Undefined

\* C2: whatever the credential origin, after an assume and the instance
\* assumeUserRoleBack() the four credential variables have the values they
\* had before the assume.
C2_NoOverride ==
    \A s \in Slots :
        RestoredBy(helper[s], "assumeUserRoleBack") => ContextAsBefore(helper[s])

C4_StaticLeaveRestores ==
    \A s \in Slots :
        RestoredBy(helper[s], "IamTestHelper.leaveLambdaRole") => ContextAsBefore(helper[s])

\* C5: from the return of executeRoleAssume to the start of restore the three
\* static variables hold the credentials AssumeRole returned for the session,
\* which are the ones stored on it.
C5_AssumedCredentialsInstalled ==
    \A s \in Slots :
        (helper[s].pc = "assumed" /\ helper[s].restores = <<>>) =>
            /\ helper[s].assumeRoleData \in AssumeRoleResponses
            /\ env["AWS_ACCESS_KEY_ID"] = helper[s].assumeRoleData.Credentials.AccessKeyId
            /\ env["AWS_SECRET_ACCESS_KEY"] = helper[s].assumeRoleData.Credentials.SecretAccessKey
            /\ env["AWS_SESSION_TOKEN"] = helper[s].assumeRoleData.Credentials.SessionToken
            /\ env["AWS_ACCESS_KEY_ID"] = helper[s].credentials.accessKeyId
            /\ env["AWS_SECRET_ACCESS_KEY"] = helper[s].credentials.secretAccessKey
            /\ env["AWS_SESSION_TOKEN"] = helper[s].credentials.sessionToken

\* an assumed session whose credentials replaced the user's own
C5_Witness ==
    \E s \in Slots :
        /\ helper[s].pc = "assumed"
        /\ helper[s].restores = <<>>
        /\ \A v \in StaticCredentialVars : helper[s].pre[v] # Undefined

\* the helper has fetched the trust policy and decided on the update
Negotiated(h) == h.trustPolicy # NoPolicy

\* the caller is in the fetched Principal.AWS field, as the string or an element
CallerFetched(h) == \E i \in 1..Len(h.fetched.items) : h.fetched.items[i] = h.caller

\* C6: the decision table of updateRoleTrustPolicy.  Principal.AWS absent or
\* empty: just the caller; the caller as the string: unchanged; another
\* string: the array [existing, caller]; an array with the caller: unchanged;
\* an array without: the same array with the caller appended.  The role holds
\* the new value once UpdateAssumeRolePolicy has answered.
C6_TrustDecisionTable ==
    \A s \in Slots :
        Negotiated(helper[s]) =>
            LET old == helper[s].fetched
                new == AwsGroupInRole(helper[s].trustPolicy)
                caller == helper[s].caller
            IN  /\ (old.kind = "undefined" \/ old.items = <<>> \/ old.items = << <<>> >>)
                       => new.items = <<caller>>
                /\ (old.kind = "string" /\ old.items[1] = caller) => new = old
                /\ (old.kind = "string" /\ old.items[1] \notin {caller, <<>>})
                       => (new.kind = "array" /\ new.items = <<old.items[1], caller>>)
                /\ (old.kind = "array" /\ CallerFetched(helper[s])) => new = old
                /\ (old.kind = "array" /\ old.items # <<>> /\ ~CallerFetched(helper[s]))
                       => (new.kind = "array" /\ new.items = old.items \o <<caller>>)
                /\ helper[s].pc = "sleep"
                       => AwsGroupInRole(iamRole.AssumeRolePolicyDocument) = new

\* an array of two without the caller was fetched, and the update has answered
C6_Witness ==
    \E s \in Slots :
        /\ helper[s].pc = "sleep"
        /\ helper[s].fetched.kind = "array"
        /\ Len(helper[s].fetched.items) = 2
        /\ ~CallerFetched(helper[s])

\* C7: UpdateAssumeRolePolicy is issued exactly when the caller is not in the
\* fetched Principal.AWS field; when it is there, no update and no settle
\* delay happen; and a run for a caller for whom an earlier run on the role
\* came to its end issues no update.
C7_TrustIdempotent ==
    \A s \in Slots :
        Negotiated(helper[s]) =>
            /\ Issued(helper[s], "UpdateAssumeRolePolicy") <=> ~CallerFetched(helper[s])
            /\ CallerFetched(helper[s]) =>
                   /\ helper[s].pc # "sleep"
                   /\ \A i \in 1..Len(helper[s].calls) :
                          helper[s].calls[i].op # "GetCallerIdentityVerify"
                              => helper[s].calls[i].at = 0
            /\ helper[s].caller \in helper[s].priorRuns
                   => ~Issued(helper[s], "UpdateAssumeRolePolicy")

\* a second run for the SSO caller, whom only a first run can have added
C7_Witness ==
    \E s \in Slots :
        /\ helper[s].pc = "AssumeRole"
        /\ helper[s].caller = SsoArn
        /\ helper[s].caller \in helper[s].priorRuns
        /\ CallerFetched(helper[s])

\* C8: when UpdateAssumeRolePolicy was issued, AssumeRole is issued only after
\* it, not while the settle timer is pending, and no sooner than 15 seconds
\* after the update answered.
C8_SettleDelay ==
    \A s \in Slots :
        /\ helper[s].pc \in {"UpdateAssumeRolePolicy", "sleep"}
               => ~Issued(helper[s], "AssumeRole")
        /\ \A i, j \in 1..Len(helper[s].calls) :
               (helper[s].calls[i].op = "UpdateAssumeRolePolicy"
                    /\ helper[s].calls[j].op = "AssumeRole")
               => /\ i < j
                  /\ helper[s].calls[j].at >= helper[s].updateDoneAt + 15 * 1000

\* AssumeRole issued after an update
C8_Witness ==
    \E s \in Slots :
        /\ Issued(helper[s], "UpdateAssumeRolePolicy")
        /\ Issued(helper[s], "AssumeRole")

\* the helper was made by assumeRoleByLambdaName
Derived(h) == h.pc = "GetCallerIdentity" /\ h.entry = "assumeRoleByLambdaName"

\* C9: the role name handed to the pipeline by assumeRoleByLambdaName is
\* service-stage-lambdaName-region-lambdaRole when that has at most 64
\* characters, and service-stage-lambdaName-region otherwise.
C9_RoleNameDerivation ==
    \A s \in Slots :
        Derived(helper[s]) =>
            LET base == env["service"] \o <<"-">> \o env["stage"] \o <<"-">>
                            \o TemplateStr(helper[s].lambdaName) \o <<"-">> \o env["region"]
                full == base \o <<"-", "l", "a", "m", "b", "d", "a", "R", "o", "l", "e">>
            IN  /\ Len(full) <= 64 => helper[s].roleName = full
                /\ Len(full) > 64 => helper[s].roleName = base

\* a name of 65 characters with the suffix, so derived without it
C9_Witness ==
    \E s \in Slots :
        /\ Derived(helper[s])
        /\ Len(helper[s].roleName) = 54
        /\ ~EndsWith(helper[s].roleName, <<"-", "l", "a", "m", "b", "d", "a", "R", "o", "l", "e">>)

\* C10: the role name derived by assumeRoleByLambdaName has at most 64
\* characters.
C10_RoleNameCap ==
    \A s \in Slots : Derived(helper[s]) => Len(helper[s].roleName) <= 64

\* C11: assumeRoleByLambdaName called with any of stage, region, service or
\* the function name empty or absent fails with the configuration error, which
\* names each missing variable, issues no remote call and makes no session.
C11_RequiredInputs ==
    \A s \in Slots :
        ( /\ helper[s].entry = "assumeRoleByLambdaName"
          /\ \/ ~Truthy(helper[s].lambdaName)
             \/ \E v \in {"stage", "region", "service"} : ~Truthy(env[v]) )
        => /\ helper[s].pc = "failed"
           /\ helper[s].error.name = "Error"
           /\ \A v \in {"stage", "region", "service"} :
                  ~Truthy(env[v]) =>
                      Includes(helper[s].error.message,
                               (CASE v = "stage" -> <<"s", "t", "a", "g", "e", "(">>
                                  [] v = "region" -> <<"r", "e", "g", "i", "o", "n", "(">>
                                  [] OTHER -> <<"s", "e", "r", "v", "i", "c", "e", "(">>) \o TemplateStr(env[v]) \o <<")">>)
           /\ helper[s].calls = <<>>
           /\ helper[s].roleName = Undefined

\* the service's refusal that getCallerCredentials() reads as "SSO caller"
DetectionSignal(h) ==
    /\ h.failedOp = "GetSessionToken"
    /\ h.remoteError.name = "AccessDenied"
    /\ Includes(h.remoteError.message, <<"G", "e", "t", "S", "e", "s", "s", "i", "o", "n", "T", "o", "k", "e", "n", " ", "w", "i", "t", "h", " ", "s", "e", "s", "s", "i", "o", "n", " ", "c", "r", "e", "d", "e", "n", "t", "i", "a", "l", "s">>)

\* the call that was answered with an error is the last call the helper issued
NoLaterStep(h) == h.calls # <<>> /\ h.calls[Len(h.calls)].op = h.failedOp

\* C12 as stated: a remote call of executeRoleAssume that fails with anything
\* but the federation-detection signal makes executeRoleAssume reject with that
\* same error, and no later step of the pipeline runs.
C12_FailurePropagation ==
    \A s \in Slots :
        (helper[s].remoteError # NoError /\ ~DetectionSignal(helper[s]))
        => /\ helper[s].pc = "failed"
           /\ helper[s].error = helper[s].remoteError
           /\ NoLaterStep(helper[s])

\* the first GetCallerIdentity answered TokenRefreshRequired
TokenExpired(h) ==
    h.failedOp = "GetCallerIdentity" /\ h.remoteError.name = "TokenRefreshRequired"

\* C12 amended: a remote call of executeRoleAssume that fails with anything but
\* the federation-detection signal makes executeRoleAssume reject and no later
\* step run; the rejection is that same error, except for TokenRefreshRequired
\* from the first GetCallerIdentity, which is replaced by the guidance error.
C12_FailurePropagationAmended ==
    \A s \in Slots :
        (helper[s].remoteError # NoError /\ ~DetectionSignal(helper[s]))
        => /\ helper[s].pc = "failed"
           /\ helper[s].error # NoError
           /\ ~TokenExpired(helper[s]) => helper[s].error = helper[s].remoteError
           /\ NoLaterStep(helper[s])

C12_Witness ==
    \E s \in Slots :
        /\ helper[s].pc = "failed"
        /\ helper[s].failedOp = "UpdateAssumeRolePolicy"
        /\ helper[s].error = AccessDenied

\* C13: when the first GetCallerIdentity fails with TokenRefreshRequired the
\* pipeline fails with an error whose message tells to run 'aws sso login';
\* when it fails with another error the pipeline fails with that error.
C13_ExpiredToken ==
    \A s \in Slots :
        (helper[s].failedOp = "GetCallerIdentity" /\ helper[s].remoteError # NoError)
        => /\ helper[s].pc = "failed"
           /\ IF helper[s].remoteError.name = "TokenRefreshRequired"
              THEN /\ helper[s].error.name = "Error"
                   /\ Includes(helper[s].error.message, <<"a", "w", "s", " ", "s", "s", "o", " ", "l", "o", "g", "i", "n">>)
              ELSE helper[s].error = helper[s].remoteError

C13_Witness ==
    \E s \in Slots :
        /\ helper[s].remoteError = TokenRefreshRequired
        /\ helper[s].pc = "failed"
        /\ Includes(helper[s].error.message, <<"a", "w", "s", " ", "s", "s", "o", " ", "l", "o", "g", "i", "n">>)

\* the step constructs a new helper in slot s
NewSession(s) == Idle(s) /\ helper'[s].pc \in {"constructed", "GetCallerIdentity", "failed"}

\* C14: once a helper's isSSO is true, no step of that helper makes it false.
C14_ClassificationMonotonic ==
    [][\A s \in Slots : (helper[s].isSSO /\ ~NewSession(s)) => helper'[s].isSSO]_vars

\* a helper the environment classified as SSO, seen as a plain user by
\* GetCallerIdentity, assumed, refreshed and restored
C14_Witness ==
    \E s \in Slots :
        /\ helper[s].isSSO
        /\ helper[s].caller = UserArn
        /\ helper[s].pc = "restored"

\* how often x occurs in seq
Count(seq, x) == Cardinality({i \in 1..Len(seq) : seq[i] = x})

\* the verification calls issued so far
Verifications(h) ==
    Cardinality({i \in 1..Len(h.calls) : h.calls[i].op = "GetCallerIdentityVerify"})

\* an SSO helper in or after assumeUserRoleBack(): nothing was raised, each call
\* waited 2 s once and verified once, and waited 3 s once per failed verification
BestEffort(h) ==
    /\ h.error = NoError
    /\ Verifications(h) <= Count(h.restores, "assumeUserRoleBack")
    /\ Len(h.verified) <= Verifications(h)
    /\ Count(h.sleeps, SsoRetryMs) <= Count(h.verified, FALSE)
    /\ h.pc = "restored" =>
           /\ Verifications(h) = Count(h.restores, "assumeUserRoleBack")
           /\ Len(h.verified) = Verifications(h)
           /\ Count(h.sleeps, SsoSettleMs) = Verifications(h)
           /\ Count(h.sleeps, SsoRetryMs) = Count(h.verified, FALSE)

\* C15: assumeUserRoleBack() on an SSO helper raises nothing and returns,
\* whether the verification GetCallerIdentity succeeds or fails; a failed
\* verification is followed by one 3 s wait and is not repeated.
C15_FederatedRestoreBestEffort ==
    /\ [](\A s \in Slots :
              (helper[s].isSSO /\ helper[s].restores # <<>>) => BestEffort(helper[s]))
    /\ \A s \in Slots :
           (helper[s].pc \in {"restoreSleep", "GetCallerIdentityVerify", "restoreRetry"})
               ~> (helper[s].pc = "restored")

C15_Witness ==
    \E s \in Slots :
        /\ helper[s].isSSO
        /\ helper[s].restores = <<"assumeUserRoleBack">>
        /\ helper[s].pc = "restored"
        /\ helper[s].verified = <<FALSE>>
        /\ helper[s].sleeps[Len(helper[s].sleeps)] = SsoRetryMs

\* process.env holds one of the credentials AssumeRole gave the helper
HoldsAssumedCredentials(h) ==
    /\ h.credentials # NoCredentials
    /\ \/ env["AWS_ACCESS_KEY_ID"] = h.credentials.accessKeyId
       \/ env["AWS_SECRET_ACCESS_KEY"] = h.credentials.secretAccessKey
       \/ env["AWS_SESSION_TOKEN"] = h.credentials.sessionToken

\* C16: whenever the cleanup callback of withAssumedRole runs, the instance
\* assumeUserRoleBack() of the block's helper has returned and process.env
\* holds none of the assumed role's credentials; cleanup is called at most once.
C16_CleanupAfterRestore ==
    /\ suite.cleanups <= 1
    /\ suite.pc = "cleanup" =>
           /\ suite.iamHelper \in Slots
           /\ helper[suite.iamHelper].pc = "restored"
           /\ helper[suite.iamHelper].restores = <<"assumeUserRoleBack">>
           /\ ~HoldsAssumedCredentials(helper[suite.iamHelper])

\* cleanup runs after the restore of an SSO helper whose verification failed
C16_Witness ==
    /\ suite.pc = "cleanup"
    /\ suite.iamHelper \in Slots
    /\ helper[suite.iamHelper].isSSO
    /\ helper[suite.iamHelper].verified = <<FALSE>>

\* the block's setup failed: beforeAll has settled without a helper
SetupFailed == suite.pc \in {"tests", "done"} /\ suite.iamHelper = "undefined"

\* the teardown has called the restore of the block's helper, or no restore
\* entry point at all before that
RestoredOnce(h) == h.restores = <<"assumeUserRoleBack">> /\ h.pc = "restored"

\* C17: when the setup's assume succeeded, the teardown of withAssumedRole runs
\* the instance assumeUserRoleBack() exactly once, whether the tests pass or
\* throw; when it failed, neither the restore nor cleanup runs and the four
\* credential variables are as before the setup.
C17_GuaranteedRestoration ==
    /\ [](\A s \in SerialSlots :
              /\ Len(helper[s].restores) <= 1
              /\ SetupFailed => /\ helper[s].restores = <<>>
                                /\ suite.cleanups = 0
                                /\ ContextAsBefore(helper[s])
              /\ (suite.pc = "done" /\ suite.iamHelper = s) => RestoredOnce(helper[s]))
    /\ \A s \in SerialSlots :
           (suite.iamHelper = s) ~> (suite.pc = "done" /\ RestoredOnce(helper[s]))

\* the restore has run although a test threw
C17_Witness ==
    /\ suite.pc = "done"
    /\ suite.thrown
    /\ suite.iamHelper \in Slots
    /\ RestoredOnce(helper[suite.iamHelper])

\* the states of a session: CREATED 1, IDENTIFIED 2, TRUSTED 3, ASSUMED 4,
\* RESTORED 5; a helper that failed has left them
Stage(h) ==
    CASE h.pc \in {"constructed", "GetCallerIdentity"} -> 1
      [] h.pc \in {"GetSessionToken", "GetRole", "UpdateAssumeRolePolicy", "sleep"} -> 2
      [] h.pc \in {"AssumeRole", "GetCallerIdentityInRole"} -> 3
      [] h.pc \in {"assumed", "GetSessionTokenRefresh"} -> 4
      [] h.pc \in {"restoreSleep", "GetCallerIdentityVerify", "restoreRetry", "restored"} -> 5
      [] OTHER -> 0

\* the step is a call of an instance method of the helper in slot s, or a
\* continuation of one: not the static IamTestHelper.leaveLambdaRole()
InstanceStep(s) ==
    /\ ~NewSession(s)
    /\ helper'[s] # helper[s]
    /\ \/ helper'[s].restores = helper[s].restores
       \/ helper'[s].restores[Len(helper'[s].restores)] # "IamTestHelper.leaveLambdaRole"

\* C18: a session only moves forward through CREATED, IDENTIFIED, TRUSTED,
\* ASSUMED, RESTORED; its credentials are installed only from TRUSTED after
\* AssumeRole succeeded; a restore changes process.env only from ASSUMED; and
\* on a RESTORED session no instance operation changes the four credential
\* variables or the session's state.
C18_SessionStateMachine ==
    [][\A s \in Slots :
         InstanceStep(s) =>
             /\ helper'[s].pc # "failed" => Stage(helper'[s]) >= Stage(helper[s])
             /\ (Stage(helper'[s]) = 4 /\ Stage(helper[s]) # 4) =>
                    Stage(helper[s]) = 3 /\ helper'[s].assumeRoleData # NoResponse
             /\ (helper'[s].restores # helper[s].restores
                     /\ CredentialState(env') # CredentialState(env)) =>
                    Stage(helper[s]) = 4
             /\ Stage(helper[s]) = 5 =>
                    /\ CredentialState(env') = CredentialState(env)
                    /\ Stage(helper'[s]) = 5]_vars

\* the helper has installed its credentials and no restore was called on it
Active(h) == h.pc = "assumed"

\* C19: at most one helper at a time has installed its assumed credentials
\* and has not been restored.
C19_SingleActiveSession == Cardinality({s \in Slots : Active(helper[s])}) <= 1

\* C20: a helper's originalCredentialState is the four credential variables as
\* they are when the helper is constructed, before its first remote call and
\* before it writes process.env; no later step changes it, and the instance
\* assumeUserRoleBack() leaves each credential variable as it was, unset, or
\* equal to the snapshot's value.
C20_SnapshotDiscipline ==
    [][\A s \in Slots :
         /\ (NewSession(s) /\ helper'[s].pc # "failed") =>
                /\ helper'[s].originalCredentialState = CredentialState(env)
                /\ env' = env
                /\ Len(helper'[s].calls) <= 1
         /\ ~NewSession(s) =>
                helper'[s].originalCredentialState = helper[s].originalCredentialState
         /\ helper'[s].restores = Append(helper[s].restores, "assumeUserRoleBack") =>
                \A v \in CredentialVars :
                    env'[v] \in {env[v], Undefined, helper[s].originalCredentialState[v]}]_vars

\* a static helper restored by assumeUserRoleBack(): the token in process.env
\* is the snapshot's
C20_Witness ==
    \E s \in Slots :
        /\ ~helper[s].isSSO
        /\ RestoredBy(helper[s], "assumeUserRoleBack")
        /\ helper[s].originalCredentialState["AWS_SESSION_TOKEN"] = <<"u", "t", "0">>
        /\ env["AWS_SESSION_TOKEN"] = <<"u", "t", "0">>

\* C21: the instance assumeUserRoleBack() called on a static helper that was
\* constructed and never assumed a role returns at once, raises nothing and
\* leaves the four credential variables as they were before the call.
C21_RestoreWithoutAssume ==
    [][\A s \in Slots :
         ( /\ helper[s].pc = "constructed"
           /\ ~helper[s].isSSO
           /\ helper'[s].restores = Append(helper[s].restores, "assumeUserRoleBack") )
         => /\ CredentialState(env') = CredentialState(env)
            /\ helper'[s].pc = "restored"
            /\ helper'[s].error = NoError]_vars

\* a helper made by new IamTestHelper() with the user's keys and token set,
\* restored without an assume
C21_Witness ==
    \E s \in Slots :
        /\ helper[s].entry = "new IamTestHelper"
        /\ ~helper[s].isSSO
        /\ helper[s].calls = <<>>
        /\ RestoredBy(helper[s], "assumeUserRoleBack")
        /\ helper[s].originalCredentialState["AWS_SESSION_TOKEN"] = <<"u", "t", "0">>
        /\ helper[s].originalCredentialState["AWS_ACCESS_KEY_ID"] = <<"A", "K", "I", "A", "0">>

\* how many times the helper has issued the remote call op
Issues(h, op) == Cardinality({i \in 1..Len(h.calls) : h.calls[i].op = op})

\* C22: one executeRoleAssume issues GetRole, UpdateAssumeRolePolicy and
\* AssumeRole at most once each; when AssumeRole fails the assumption fails
\* with that error and AssumeRole is the last call: the trust policy is not
\* fetched or submitted again.
C22_NoRetry ==
    \A s \in Slots :
        /\ \A op \in {"GetRole", "UpdateAssumeRolePolicy", "AssumeRole"} :
               Issues(helper[s], op) <= 1
        /\ (helper[s].failedOp = "AssumeRole" /\ helper[s].remoteError # NoError)
               => /\ helper[s].pc = "failed"
                  /\ helper[s].error = helper[s].remoteError
                  /\ NoLaterStep(helper[s])

\* AssumeRole refused after the policy was updated and the settle delay ran out
C22_Witness ==
    \E s \in Slots :
        /\ helper[s].pc = "failed"
        /\ helper[s].failedOp = "AssumeRole"
        /\ Issued(helper[s], "UpdateAssumeRolePolicy")
        /\ helper[s].sleeps = <<SleepMs(SettleSeconds)>>

\* the place of op among the remote calls of executeRoleAssume, in the order of
\* its awaits; 0 for a call that is not of the pipeline
Rank(op) ==
    CASE op = "GetCallerIdentity" -> 1
      [] op = "GetSessionToken" -> 2
      [] op = "GetRole" -> 3
      [] op = "UpdateAssumeRolePolicy" -> 4
      [] op = "AssumeRole" -> 5
      [] op = "GetCallerIdentityInRole" -> 6
      [] OTHER -> 0

\* an SSO marker variable is set
MarkerSignal ==
    Truthy(env["AWS_SSO_SESSION_NAME"]) \/ Truthy(env["AWS_SSO_START_URL"])

\* AWS_PROFILE, as it was when the helper was made, contains '-sso' or ends in 'sso'
ProfileSignal(h) ==
    /\ Truthy(h.pre["AWS_PROFILE"])
    /\ \/ Includes(h.pre["AWS_PROFILE"], <<"-", "s", "s", "o">>)
       \/ EndsWith(h.pre["AWS_PROFILE"], <<"s", "s", "o">>)

\* the ARN the first GetCallerIdentity returned is that of an SSO role or session
ArnSignal(h) ==
    /\ h.caller # Undefined
    /\ \/ Includes(h.caller, <<"A", "W", "S", "R", "e", "s", "e", "r", "v", "e", "d", "S", "S", "O", "_">>)
       \/ Includes(h.caller, <<"/", "s", "s", "o", "-", "s", "e", "s", "s", "i", "o", "n", "/">>)

\* C23: the calls of one executeRoleAssume are issued in the order
\* GetCallerIdentity, GetSessionToken (static caller only), GetRole,
\* UpdateAssumeRolePolicy (only when the caller is not trusted), AssumeRole,
\* in-role GetCallerIdentity, each after the one before it was answered; the
\* credentials are installed after the last of them, so while the pipeline
\* runs and whenever it fails the four credential variables are as before.
C23_PipelineOrder ==
    \A s \in Slots :
        LET h == helper[s]
            n == Len(h.calls)
        IN  /\ \A j \in 2..n :
                   \/ Rank(h.calls[j].op) = 0
                   \/ /\ Rank(h.calls[j - 1].op) > 0
                      /\ Rank(h.calls[j - 1].op) < Rank(h.calls[j].op)
            /\ n > 0 => h.calls[1].op = "GetCallerIdentity"
            /\ Issued(h, "UpdateAssumeRolePolicy") => Issued(h, "GetRole")
            /\ Issued(h, "AssumeRole") => Issued(h, "GetRole")
            /\ Issued(h, "GetCallerIdentityInRole") => Issued(h, "AssumeRole")
            /\ Issued(h, "GetRole") =>
                   (Issued(h, "GetSessionToken")
                        <=> ~(MarkerSignal \/ ProfileSignal(h) \/ ArnSignal(h)))
            /\ Issued(h, "UpdateAssumeRolePolicy") => ~CallerFetched(h)
            /\ Rank(h.pc) > 0 => h.calls[n].op = h.pc
            /\ (Rank(h.pc) > 0 \/ h.pc \in {"sleep", "failed"}) => ContextAsBefore(h)
            /\ HoldsAssumedCredentials(h) =>
                   /\ h.pc \in {"assumed", "restored"}
                   /\ Issued(h, "GetCallerIdentityInRole")

\* the in-role GetCallerIdentity failed: all six calls were made, nothing installed
C23_Witness ==
    \E s \in Slots :
        /\ helper[s].pc = "failed"
        /\ helper[s].failedOp = "GetCallerIdentityInRole"
        /\ Len(helper[s].calls) = 6
        /\ \E v \in StaticCredentialVars : env[v] # Undefined

\* C24: when the credentials are installed the helper is SSO exactly if an SSO
\* marker variable was set, or AWS_PROFILE contained '-sso' or ended in 'sso',
\* or the caller's ARN contains 'AWSReservedSSO_' or '/sso-session/', or
\* GetSessionToken was refused with the session-credentials message.
C24_ClassificationComplete ==
    \A s \in Slots :
        (helper[s].pc = "assumed" /\ helper[s].restores = <<>>) =>
            ( helper[s].isSSO <=>
                  \/ MarkerSignal
                  \/ ProfileSignal(helper[s])
                  \/ ArnSignal(helper[s])
                  \/ DetectionSignal(helper[s]) )

\* installed as SSO on the refusal alone
C24_Witness ==
    \E s \in Slots :
        /\ helper[s].pc = "assumed"
        /\ helper[s].isSSO
        /\ DetectionSignal(helper[s])
        /\ ~MarkerSignal /\ ~ProfileSignal(helper[s]) /\ ~ArnSignal(helper[s])

\* C25: a GetSessionToken refused with the session-credentials message is
\* absorbed, the helper becomes SSO and GetRole is the next call; refused with
\* any other error the pipeline fails with that error; and a helper that is
\* SSO before the step issues no GetSessionToken.
C25_FallbackDetector ==
    \A s \in Slots :
        LET h == helper[s]
        IN  /\ DetectionSignal(h) =>
                   /\ h.isSSO
                   /\ h.masterCredentials = "null"
                   /\ h.pc # "failed"
                   /\ h.error = NoError
                   /\ \E i \in 1..(Len(h.calls) - 1) :
                          /\ h.calls[i].op = "GetSessionToken"
                          /\ h.calls[i + 1].op = "GetRole"
            /\ (h.failedOp = "GetSessionToken" /\ h.remoteError # NoError /\ ~DetectionSignal(h)) =>
                   /\ h.pc = "failed"
                   /\ h.error = h.remoteError
                   /\ NoLaterStep(h)
            /\ (MarkerSignal \/ ProfileSignal(h) \/ ArnSignal(h)) =>
                   ~Issued(h, "GetSessionToken")

\* the refusal was absorbed and the pipeline is past GetRole
C25_Witness ==
    \E s \in Slots :
        /\ DetectionSignal(helper[s])
        /\ helper[s].pc = "AssumeRole"
        /\ helper[s].caller = UserArn

\* the step is a call of the instance assumeUserRoleBack() on the helper of slot s
CallsAssumeUserRoleBack(s) ==
    helper'[s].restores = Append(helper[s].restores, "assumeUserRoleBack")

\* C26: assumeUserRoleBack() on a static helper makes no remote call and no
\* wait and has written the snapshot back when it yields; on an SSO helper it
\* has set AWS_PROFILE again when its 2 s wait begins, and issues its one
\* verification GetCallerIdentity when that wait is over.
C26_RestoreAsymmetry ==
    /\ [](\A s \in Slots :
              /\ ~helper[s].isSSO =>
                     /\ Verifications(helper[s]) = 0
                     /\ Count(helper[s].sleeps, SsoSettleMs) = 0
                     /\ Count(helper[s].sleeps, SsoRetryMs) = 0
              /\ (helper[s].isSSO /\ helper[s].pc = "restored") =>
                     Verifications(helper[s]) = Count(helper[s].restores, "assumeUserRoleBack"))
    /\ [][\A s \in Slots :
            /\ (CallsAssumeUserRoleBack(s) /\ ~helper[s].isSSO) =>
                   /\ helper'[s].pc = "restored"
                   /\ helper'[s].timer = 0
                   /\ helper'[s].calls = helper[s].calls
                   /\ \A v \in StaticCredentialVars :
                          env'[v] = helper[s].originalCredentialState[v]
                   /\ helper[s].originalCredentialState["AWS_PROFILE"] # Undefined =>
                          env'["AWS_PROFILE"] = helper[s].originalCredentialState["AWS_PROFILE"]
            /\ (CallsAssumeUserRoleBack(s) /\ helper[s].isSSO) =>
                   /\ helper'[s].pc = "restoreSleep"
                   /\ helper'[s].timer = 2000
                   /\ helper'[s].calls = helper[s].calls
                   /\ helper[s].originalCredentialState["AWS_PROFILE"] # Undefined =>
                          env'["AWS_PROFILE"] = helper[s].originalCredentialState["AWS_PROFILE"]
            /\ (~NewSession(s) /\ Verifications(helper'[s]) # Verifications(helper[s])) =>
                   /\ helper[s].pc = "restoreSleep"
                   /\ Verifications(helper'[s]) = Verifications(helper[s]) + 1
                   /\ helper'[s].clock = helper[s].clock + 2000
                   /\ helper'[s].calls[Len(helper'[s].calls)].at = helper'[s].clock]_vars

\* an SSO helper waits for its verification with AWS_PROFILE set again
C26_Witness ==
    \E s \in Slots :
        /\ helper[s].isSSO
        /\ helper[s].pc = "GetCallerIdentityVerify"
        /\ helper[s].restores = <<"assumeUserRoleBack">>
        /\ Issued(helper[s], "AssumeRole")
        /\ env["AWS_PROFILE"] = <<"m", "y", "-", "s", "s", "o">>

\* C27: for every helper that has assumed its role, the instance
\* leaveLambdaRole() and the instance assumeUserRoleBack() leave the four
\* credential variables in the same state.
C27_RestoreEntryPointsEquivalent ==
    \A s \in Slots :
        helper[s].pc = "assumed" =>
            \A v \in CredentialVars :
                StaticAssumeUserRoleBack(env)[v] = AssumeUserRoleBackEnv(helper[s], env)[v]

\* the helper of slot b was made while process.env held the credentials of the
\* helper of slot a, and was installed before a was restored
Overlapped(a, b) ==
    /\ helper[a].credentials # NoCredentials
    /\ helper[b].originalCredentialState["AWS_ACCESS_KEY_ID"] = helper[a].credentials.accessKeyId
    /\ helper[b].originalCredentialState["AWS_SESSION_TOKEN"] = helper[a].credentials.sessionToken
    /\ b \in helper[a].restoredOver \/ a \in helper[b].restoredOver

\* C28: two static helpers, the second assumed before the first was restored,
\* both restored by assumeUserRoleBack() in either order: the four credential
\* variables are as before the first assume and hold no assumed credentials.
C28_OverlappingSessions ==
    \A a, b \in Slots :
        ( /\ a # b
          /\ ~helper[a].isSSO /\ ~helper[b].isSSO
          /\ Overlapped(a, b)
          /\ RestoredBy(helper[a], "assumeUserRoleBack")
          /\ RestoredBy(helper[b], "assumeUserRoleBack") )
        => /\ ContextAsBefore(helper[a])
           /\ ~HoldsAssumedCredentials(helper[a])
           /\ ~HoldsAssumedCredentials(helper[b])

\* the last restore call made on the helper was the instance
\* assumeUserRoleBack(), and it has returned
LastRestoreReturned(h) ==
    /\ h.pc = "restored"
    /\ h.restores # <<>>
    /\ h.restores[Len(h.restores)] = "assumeUserRoleBack"

\* C29: a call of the instance assumeUserRoleBack() that follows a completed
\* one on the same helper leaves the four credential variables as the first
\* call left them.
C29_RestoreIdempotent ==
    [][\A s \in Slots :
          (LastRestoreReturned(helper[s]) /\ CallsAssumeUserRoleBack(s))
          => CredentialState(env') = CredentialState(env)]_vars

C29_Witness ==
    \E s \in Slots :
        /\ helper[s].pc = "restored"
        /\ helper[s].restores = <<"assumeUserRoleBack", "assumeUserRoleBack">>
        /\ helper[s].credentials # NoCredentials
        /\ env["AWS_ACCESS_KEY_ID"] = helper[s].pre["AWS_ACCESS_KEY_ID"]
        /\ Truthy(env["AWS_ACCESS_KEY_ID"])

\* the principals a Principal.AWS field names
PriorPrincipals(section) == IF TruthySection(section) THEN section.items ELSE <<>>

\* C30: the document submitted to UpdateAssumeRolePolicy differs from the
\* fetched one only in Statement[0].Principal.AWS: that field names the
\* principals it named before, in their order, and then the caller, whose ARN is
\* the one the first GetCallerIdentity returned and not that of the role's
\* session; every other statement, and the Effect, Action and service principal
\* of the first, are as fetched.
C30_TrustMutationOnlyAdds ==
    \A s \in SerialSlots :
        helper[s].pc = "UpdateAssumeRolePolicy" =>
            LET fetched == iamRole.AssumeRolePolicyDocument
                submitted == helper[s].trustPolicy
            IN  /\ submitted.Version = fetched.Version
                /\ Len(submitted.Statement) = Len(fetched.Statement)
                /\ \A i \in 2..Len(fetched.Statement) :
                       submitted.Statement[i] = fetched.Statement[i]
                /\ submitted.Statement[1].Effect = fetched.Statement[1].Effect
                /\ submitted.Statement[1].Action = fetched.Statement[1].Action
                /\ submitted.Statement[1].Principal.Service
                       = fetched.Statement[1].Principal.Service
                /\ AwsGroupInRole(fetched) = helper[s].fetched
                /\ AwsGroupInRole(submitted).items
                       = PriorPrincipals(AwsGroupInRole(fetched)) \o <<helper[s].caller>>
                /\ helper[s].caller \in {UserArn, SsoArn}
                /\ helper[s].caller # AssumedRoleArn(helper[s])

\* the update is in flight for a role that trusted another principal, and the
\* document has a second statement
C30_Witness ==
    \E s \in SerialSlots :
        /\ helper[s].pc = "UpdateAssumeRolePolicy"
        /\ helper[s].fetched = Array(<<OtherArn>>)
        /\ AwsGroupInRole(helper[s].trustPolicy).items = <<OtherArn, helper[s].caller>>
        /\ Len(iamRole.AssumeRolePolicyDocument.Statement) = 2

\* the document's Statement[0].Principal.AWS names the principal
Trusts(document, principal) ==
    \E i \in 1..Len(PriorPrincipals(AwsGroupInRole(document))) :
        PriorPrincipals(AwsGroupInRole(document))[i] = principal

\* the remote calls that read or write the role's trust policy
TrustPolicyOps == {"GetRole", "UpdateAssumeRolePolicy"}

\* C31: once a restore entry point has been called on a helper, none of its
\* GetRole and UpdateAssumeRolePolicy calls was issued after the pipeline's last
\* call and none is in flight; the role's trust policy is the document the
\* pipeline left, and when the role was assumed it still names the caller.
C31_RestoreKeepsTrustPolicy ==
    \A s \in SerialSlots :
        helper[s].restores # <<>> =>
            LET h == helper[s]
            IN  /\ h.pc \notin TrustPolicyOps \cup {"sleep"}
                /\ \A i \in 1..Len(h.calls) :
                       h.calls[i].op \in TrustPolicyOps =>
                           \E j \in (i + 1)..Len(h.calls) :
                               h.calls[j].op = "GetCallerIdentityInRole"
                /\ Negotiated(h) => iamRole.AssumeRolePolicyDocument = h.trustPolicy
                /\ h.credentials # NoCredentials
                       => Trusts(iamRole.AssumeRolePolicyDocument, h.caller)

\* the pipeline added the caller, and every restore entry point was then used
C31_Witness ==
    \E s \in SerialSlots :
        /\ helper[s].pc = "restored"
        /\ Len(helper[s].restores) = MaxRestores
        /\ \E i \in 1..Len(helper[s].restores) : helper[s].restores[i] = "assumeUserRoleBack"
        /\ \E i \in 1..Len(helper[s].restores) : helper[s].restores[i] # "assumeUserRoleBack"
        /\ Issued(helper[s], "UpdateAssumeRolePolicy")
        /\ ~CallerFetched(helper[s])
        /\ Trusts(iamRole.AssumeRolePolicyDocument, helper[s].caller)

====
